---- MODULE Spec2Model ----
(***************************************************************************)
(* The chat relay service of main.py: module start-up, the three routes    *)
(* (read_root, api_status, chat_with_ai) and the translation of the remote *)
(* model's failures into HTTP responses.                                   *)
(*                                                                         *)
(* Text is a sequence of one-character strings, so that str.lower() and    *)
(* the "in" substring test are computed character by character.            *)
(***************************************************************************)
EXTENDS Naturals, Sequences, FiniteSets, TLC

VARIABLES phase, environ, llm, req

vars == <<phase, environ, llm, req>>

(* Number of requests the hosting server handles at the same time. *)
NumRequests == 2

Slots == 1..NumRequests

(* ---------------------------------------------------------------- text *)

UpperLetters ==
    <<"A","B","C","D","E","F","G","H","I","J","K","L","M","N","O","P","Q","R","S","T","U","V","W","X","Y","Z">>

LowerLetters ==
    <<"a","b","c","d","e","f","g","h","i","j","k","l","m","n","o","p","q","r","s","t","u","v","w","x","y","z">>

(* str.lower() on one character *)
LowerChar(c) ==
    IF \E i \in 1..Len(UpperLetters) : UpperLetters[i] = c
    THEN LowerLetters[CHOOSE i \in 1..Len(UpperLetters) : UpperLetters[i] = c]
    ELSE c

(* str.lower() *)
Lower(s) == [i \in 1..Len(s) |-> LowerChar(s[i])]

(* sub in s *)
Contains(s, sub) ==
    \E i \in 0..Len(s) :
        /\ i + Len(sub) <= Len(s)
        /\ SubSeq(s, i + 1, i + Len(sub)) = sub

Empty == << >>

Hello ==
    <<"H","e","l","l","o">>

ReplyText ==
    <<"H","i"," ","A","n","a">>

RateLimitDetail ==
    <<"R","a","t","e"," ","l","i","m","i","t"," ","e","x","c","e","e","d","e","d","."," ","P","l","e","a","s","e"," ","t","r","y"," ","a","g","a","i","n"," ","i","n"," ","a"," ","f","e","w"," ","s","e","c","o","n","d","s",".">>

QuotaDetail ==
    <<"G","o","o","g","l","e"," ","A","P","I"," ","q","u","o","t","a"," ","e","x","c","e","e","d","e","d","."," ","Y","o","u","r"," ","d","a","i","l","y"," ","l","i","m","i","t"," ","m","a","y"," ","h","a","v","e"," ","b","e","e","n"," ","r","e","a","c","h","e","d","."," ","P","l","e","a","s","e"," ","t","r","y"," ","a","g","a","i","n"," ","l","a","t","e","r"," ","o","r"," ","c","o","n","s","i","d","e","r"," ","u","p","g","r","a","d","i","n","g"," ","y","o","u","r"," ","A","P","I"," ","t","i","e","r",".">>

TimeoutDetail ==
    <<"R","e","q","u","e","s","t"," ","t","o"," ","G","o","o","g","l","e"," ","A","P","I"," ","t","i","m","e","d"," ","o","u","t","."," ","T","h","e"," ","s","e","r","v","i","c","e"," ","m","i","g","h","t"," ","b","e"," ","e","x","p","e","r","i","e","n","c","i","n","g"," ","h","i","g","h"," ","l","o","a","d",".">>

ConfigDetail ==
    <<"A","P","I"," ","k","e","y"," ","c","o","n","f","i","g","u","r","a","t","i","o","n"," ","e","r","r","o","r">>

GenericPrefix ==
    <<"A","n"," ","e","r","r","o","r"," ","o","c","c","u","r","r","e","d",":"," ">>

ReceivedPrefix ==
    <<"R","e","c","e","i","v","e","d"," ","m","e","s","s","a","g","e",":"," ">>

AiReplyPrefix ==
    <<"A","I"," ","r","e","p","l","y",":"," ">>

KeyMissingLine ==
    <<"E","R","R","O","R",":"," ","G","o","o","g","l","e"," ","A","P","I"," ","K","e","y"," ","i","s"," ","m","i","s","s","i","n","g">>

QuotaLinePrefix ==
    <<"Q","u","o","t","a"," ","e","x","c","e","e","d","e","d",":"," ">>

TimedOutLine ==
    <<"R","e","q","u","e","s","t"," ","t","i","m","e","d"," ","o","u","t">>

ErrorLinePrefix ==
    <<"E","R","R","O","R"," ","i","n"," ","c","h","a","t"," ","e","n","d","p","o","i","n","t",":"," ">>

TracebackPrefix ==
    <<"T","r","a","c","e","b","a","c","k",":"," ">>

RateLimitNeedle ==
    <<"r","a","t","e"," ","l","i","m","i","t">>

QuotaNeedle ==
    <<"q","u","o","t","a">>

RateNeedle ==
    <<"r","a","t","e">>

MsgRateLimit ==
    <<"R","a","t","e"," ","L","i","m","i","t"," ","h","i","t">>

MsgQuota ==
    <<"Q","U","O","T","A",":"," ","d","a","i","l","y"," ","l","i","m","i","t">>

MsgBoth ==
    <<"q","u","o","t","a",":"," ","r","a","t","e"," ","l","i","m","i","t">>

MsgRate ==
    <<"R","A","T","E"," ","t","o","o"," ","h","i","g","h">>

MsgBoom ==
    <<"b","o","o","m">>

FieldRequired ==
    <<"F","i","e","l","d"," ","r","e","q","u","i","r","e","d">>

TimeoutMsg ==
    <<"t","i","m","e","d"," ","o","u","t">>


(* ------------------------------------------------------- input domains *)

(* os.environ["GOOGLE_API_KEY"]: unset, set to "", set to a key *)
EnvUnset == [present |-> FALSE, value |-> Empty]

EnvEmpty == [present |-> TRUE, value |-> Empty]

EnvKey == [present |-> TRUE, value |-> <<"k","1">>]

EnvStates == {EnvUnset, EnvEmpty, EnvKey}

(* "GOOGLE_API_KEY" in os.environ *)
KeyInEnviron(env) == env.present

(* os.environ.get("GOOGLE_API_KEY"), taken as a truth value *)
KeyTruthy(env) == env.present /\ env.value # Empty

(* JSON bodies posted to /chat: no "message" field, "" and "Hello" *)
NoMessage == [has |-> FALSE, message |-> Empty]

Bodies == {NoMessage, [has |-> TRUE, message |-> Empty], [has |-> TRUE, message |-> Hello]}

(* texts the remote model answers with *)
Replies == {ReplyText, Empty}

(* messages carried by the remote client's failures *)
ErrMessages == {MsgRateLimit, MsgQuota, MsgBoth, MsgRate, MsgBoom}

NoExc == [kind |-> "none", msg |-> Empty]

(* what llm.invoke can do when it completes within its timeout *)
Outcomes ==
    [ok : {TRUE}, content : Replies, exc : {NoExc}]
    \cup [ok : {FALSE}, content : {Empty},
          exc : [kind : {"ResourceExhausted", "Exception"}, msg : ErrMessages]]

(* timeouts passed to llm.invoke *)
ProbeTimeout == 10

ChatTimeout == 30

(* time the remote call would need: at once, and at and just past each timeout *)
Durations == {0, ProbeTimeout, ProbeTimeout + 1, ChatTimeout, ChatTimeout + 1}

(* llm.invoke(prompt, timeout=t): the call is cut off at t with TimeoutError *)
invoke(t, d, o) ==
    IF d > t
    THEN [ok |-> FALSE, content |-> Empty,
          exc |-> [kind |-> "TimeoutError", msg |-> TimeoutMsg]]
    ELSE o

(* every way a call with timeout t can end *)
InvokeResults(t) == {invoke(t, d, o) : d \in Durations, o \in Outcomes}

(* ------------------------------------------------------------ responses *)

NoResponse ==
    [code |-> 0, reply |-> Empty, detail |-> Empty, status |-> "", error |-> Empty, model |-> ""]

(* ChatResponse(reply=...) returned with 200 *)
ChatResponse(reply) == [NoResponse EXCEPT !.code = 200, !.reply = reply]

(* raise HTTPException(status_code=..., detail=...) *)
HTTPException(status_code, detail) ==
    [NoResponse EXCEPT !.code = status_code, !.detail = detail]

(* print(...) *)
Line(text) == [text |-> text, traceback |-> FALSE]

(* print(f"Traceback: {traceback.format_exc()}") *)
TraceLine == [text |-> TracebackPrefix, traceback |-> TRUE]

IdleReq ==
    [pc |-> "idle", route |-> "none", body |-> NoMessage, keyOk |-> FALSE,
     calls |-> 0, timeout |-> 0,
     result |-> [ok |-> FALSE, content |-> Empty, exc |-> NoExc],
     resp |-> NoResponse, out |-> << >>]

(* ------------------------------------------------------------ start-up *)

ModelName == "gemini-1.5-flash"

NoHandle == [built |-> FALSE, model |-> ""]

(* ChatGoogleGenerativeAI(model="gemini-1.5-flash") *)
Handle == [built |-> TRUE, model |-> ModelName]

(* the check of main.py:16: the variable only has to exist *)
StartupKeyCheck(env) == KeyInEnviron(env)

(* Module load: load_dotenv, the key check, then the construction of llm,  *)
(* which the client library may refuse (constructed = FALSE).              *)
Startup ==
    /\ phase = "boot"
    /\ \E constructed \in BOOLEAN :
          IF StartupKeyCheck(environ) /\ constructed
          THEN phase' = "serving" /\ llm' = Handle
          ELSE phase' = "exited" /\ llm' = NoHandle
    /\ UNCHANGED <<environ, req>>

(* The credential is changed or removed while the server runs. *)
SetEnv(env) ==
    /\ phase = "serving"
    /\ environ # env
    /\ environ' = env
    /\ UNCHANGED <<phase, llm, req>>

(* ------------------------------------------------------------- GET /   *)

read_root(r) ==
    /\ phase = "serving"
    /\ req[r].pc = "idle"
    /\ req' = [req EXCEPT ![r] =
                 [IdleReq EXCEPT !.pc = "responded", !.route = "health",
                                 !.resp = [NoResponse EXCEPT !.code = 200,
                                                             !.status = "Server is running"]]]
    /\ UNCHANGED <<phase, environ, llm>>

(* ------------------------------------------------------ GET /api-status *)

(* the same test without .lower() *)
IsQuotaMessageCaseSensitive(error_message) ==
    \/ Contains(error_message, QuotaNeedle)
    \/ Contains(error_message, RateNeedle)

(* "quota" in error_message.lower() or "rate" in error_message.lower() *)
IsQuotaMessage(error_message) ==
    \/ Contains(Lower(error_message), QuotaNeedle)
    \/ Contains(Lower(error_message), RateNeedle)

(* status_message of the except branch *)
StatusMessage(error_message) ==
    IF IsQuotaMessage(error_message) THEN "quota_exceeded" ELSE "error"

(* status_code of the except branch: assigned, then never used *)
StatusCodeLocal(error_message) ==
    IF IsQuotaMessage(error_message) THEN 429 ELSE 500

(* a report that goes by the type of the failure instead of its text *)
StatusReportByKind(result, handle) ==
    IF result.ok
    THEN [NoResponse EXCEPT !.code = 200, !.status = "operational", !.model = handle.model]
    ELSE [NoResponse EXCEPT !.code = 200,
                            !.status = IF result.exc.kind = "ResourceExhausted"
                                       THEN "quota_exceeded" ELSE "error",
                            !.error = result.exc.msg, !.model = handle.model]

(* the handler returns a plain dict on both paths, which FastAPI sends as 200 *)
StatusReport(result, handle) ==
    IF result.ok
    THEN [NoResponse EXCEPT !.code = 200, !.status = "operational", !.model = handle.model]
    ELSE [NoResponse EXCEPT !.code = 200, !.status = StatusMessage(result.exc.msg),
                            !.error = result.exc.msg, !.model = handle.model]

(* entry of api_status, up to the blocking llm.invoke("Hello", timeout=10) *)
api_status(r) ==
    /\ phase = "serving"
    /\ req[r].pc = "idle"
    /\ req' = [req EXCEPT ![r] =
                 [IdleReq EXCEPT !.pc = "invoking", !.route = "status",
                                 !.body = [has |-> TRUE, message |-> Hello],
                                 !.calls = 1, !.timeout = ProbeTimeout]]
    /\ UNCHANGED <<phase, environ, llm>>

(* llm.invoke completes and api_status builds its report; the text the     *)
(* model returned is dropped, and nothing is printed                       *)
api_status_done(r) ==
    /\ req[r].pc = "invoking"
    /\ req[r].route = "status"
    /\ \E result \in InvokeResults(req[r].timeout) :
          req' = [req EXCEPT ![r].pc = "responded",
                             ![r].result = [result EXCEPT !.content = Empty],
                             ![r].resp = StatusReport(result, llm)]
    /\ UNCHANGED <<phase, environ, llm>>

(* ---------------------------------------------------------- POST /chat *)

(* ChatRequest: pydantic accepts any str for message, "" included *)
ChatRequestValid(body) == body.has

(* what FastAPI answers when the body does not validate *)
ValidationError == HTTPException(422, FieldRequired)

(* the request-time check written like the start-up check *)
KeyMissingMembershipOnly(env) == ~KeyInEnviron(env)

(* if not os.environ.get("GOOGLE_API_KEY") *)
KeyMissing(env) == ~KeyTruthy(env)

(* the rate-limit test without .lower() *)
ChatOnResourceExhaustedCaseSensitive(error_message) ==
    [resp |-> IF Contains(error_message, RateLimitNeedle)
              THEN HTTPException(429, RateLimitDetail)
              ELSE HTTPException(429, QuotaDetail),
     out  |-> << Line(QuotaLinePrefix \o error_message) >>]

(* except ResourceExhausted as quota_error *)
ChatOnResourceExhausted(error_message) ==
    [resp |-> IF Contains(Lower(error_message), RateLimitNeedle)
              THEN HTTPException(429, RateLimitDetail)
              ELSE HTTPException(429, QuotaDetail),
     out  |-> << Line(QuotaLinePrefix \o error_message) >>]

(* the outer except answering with a fixed text, str(e) left out *)
ChatOnExceptionNoText(error_message) ==
    [resp |-> HTTPException(500, GenericPrefix),
     out  |-> << Line(ErrorLinePrefix \o error_message), TraceLine >>]

(* except Exception as e, of the outer try *)
ChatOnException(error_message) ==
    [resp |-> HTTPException(500, GenericPrefix \o error_message),
     out  |-> << Line(ErrorLinePrefix \o error_message), TraceLine >>]

(* no except TimeoutError clause: the outer except Exception answers *)
ChatOnTimeoutUncaught == ChatOnException(TimeoutMsg)

(* except TimeoutError *)
ChatOnTimeout ==
    [resp |-> HTTPException(504, TimeoutDetail),
     out  |-> << Line(TimedOutLine) >>]

(* the printed line is returned instead of result.content *)
ChatOnSuccessPrintedLine(content) ==
    [resp |-> ChatResponse(AiReplyPrefix \o content),
     out  |-> << Line(AiReplyPrefix \o content) >>]

(* result.content is printed and returned as ChatResponse *)
ChatOnSuccess(content) ==
    [resp |-> ChatResponse(content),
     out  |-> << Line(AiReplyPrefix \o content) >>]

(* the except clauses in the order Python tries them *)
ChatOutcome(result) ==
    IF result.ok THEN ChatOnSuccess(result.content)
    ELSE IF result.exc.kind = "ResourceExhausted" THEN ChatOnResourceExhausted(result.exc.msg)
    ELSE IF result.exc.kind = "TimeoutError" THEN ChatOnTimeout
    ELSE ChatOnException(result.exc.msg)

(* What a POST /chat with this body becomes when it arrives under this     *)
(* environment: rejected by validation, refused for the missing key, or    *)
(* waiting in llm.invoke(message, timeout=30). keyOk keeps what            *)
(* os.environ.get("GOOGLE_API_KEY") was worth at that moment.              *)
ChatArrival(body, env) ==
    IF ~ChatRequestValid(body)
    THEN [IdleReq EXCEPT !.pc = "responded", !.route = "chat", !.body = body,
                         !.keyOk = KeyTruthy(env),
                         !.resp = ValidationError]
    ELSE IF KeyMissing(env)
    THEN [IdleReq EXCEPT !.pc = "responded", !.route = "chat", !.body = body,
                         !.keyOk = KeyTruthy(env),
                         !.resp = HTTPException(500, ConfigDetail),
                         !.out = << Line(ReceivedPrefix \o body.message),
                                    Line(KeyMissingLine) >>]
    ELSE [IdleReq EXCEPT !.pc = "invoking", !.route = "chat", !.body = body,
                         !.keyOk = KeyTruthy(env),
                         !.calls = 1, !.timeout = ChatTimeout,
                         !.out = << Line(ReceivedPrefix \o body.message) >>]

(* a handler that refuses to forward while a status probe reports trouble *)
chat_with_ai_gated(r, body) ==
    /\ phase = "serving"
    /\ req[r].pc = "idle"
    /\ ~\E q \in Slots : /\ req[q].pc = "responded"
                         /\ req[q].route = "status"
                         /\ req[q].resp.status # "operational"
    /\ req' = [req EXCEPT ![r] = ChatArrival(body, environ)]
    /\ UNCHANGED <<phase, environ, llm>>

(* entry of chat_with_ai, up to the blocking llm.invoke(message, timeout=30) *)
chat_with_ai(r, body) ==
    /\ phase = "serving"
    /\ req[r].pc = "idle"
    /\ req' = [req EXCEPT ![r] = ChatArrival(body, environ)]
    /\ UNCHANGED <<phase, environ, llm>>

(* llm.invoke completes and chat_with_ai answers *)
chat_with_ai_done(r) ==
    /\ req[r].pc = "invoking"
    /\ req[r].route = "chat"
    /\ \E result \in InvokeResults(req[r].timeout) :
          LET h == ChatOutcome(result)
          IN  req' = [req EXCEPT ![r].pc = "responded",
                                 ![r].result = result,
                                 ![r].resp = h.resp,
                                 ![r].out = req[r].out \o h.out]
    /\ UNCHANGED <<phase, environ, llm>>

(* the response has been sent; the worker is free for the next request *)
Deliver(r) ==
    /\ req[r].pc = "responded"
    /\ req' = [req EXCEPT ![r] = IdleReq]
    /\ UNCHANGED <<phase, environ, llm>>

(* ------------------------------------------------------- specification *)

Init ==
    /\ phase = "boot"
    /\ environ \in EnvStates
    /\ llm = NoHandle
    /\ req = [r \in Slots |-> IdleReq]

Next ==
    \/ Startup
    \/ \E env \in EnvStates : SetEnv(env)
    \/ \E r \in Slots : read_root(r)
    \/ \E r \in Slots : api_status(r)
    \/ \E r \in Slots : api_status_done(r)
    \/ \E r \in Slots, body \in Bodies : chat_with_ai(r, body)
    \/ \E r \in Slots : chat_with_ai_done(r)
    \/ \E r \in Slots : Deliver(r)

Spec == Init /\ [][Next]_vars

(* ------------------------------------------------------------ properties *)

Responded(r, route) == req[r].pc = "responded" /\ req[r].route = route

(* the remote call of request r was made and raised *)
RemoteFailed(r) == req[r].calls = 1 /\ req[r].pc = "responded" /\ ~req[r].result.ok

(* needle occurs in s when letter case is ignored *)
ContainsAnyCase(s, needle) ==
    \E i \in 0..Len(s) :
        /\ i + Len(needle) <= Len(s)
        /\ \A j \in 1..Len(needle) : LowerChar(s[i + j]) = LowerChar(needle[j])

(* C1: a chat request with a non-empty message whose remote call succeeds  *)
(* is answered 200 with reply equal to the text the remote model returned. *)
ChatSuccessReply ==
    \A r \in Slots :
        ( /\ Responded(r, "chat")
          /\ req[r].body.message # Empty
          /\ req[r].calls = 1
          /\ req[r].result.ok )
        => /\ req[r].resp.code = 200
           /\ req[r].resp.reply = req[r].result.content
           /\ req[r].resp.detail = Empty

ChatSuccessReplyWitness ==
    \E r \in Slots :
        /\ Responded(r, "chat")
        /\ req[r].body.message = Hello
        /\ req[r].result.ok
        /\ req[r].result.content = ReplyText
        /\ req[r].resp.reply = ReplyText

(* C2: a ResourceExhausted failure in chat forward is always answered 429; *)
(* the detail is the short-retry message when the failure message contains *)
(* "rate limit" in any letter case (also when it contains quota wording    *)
(* too), and the daily-quota message otherwise.                            *)
ChatQuotaBranch ==
    \A r \in Slots :
        ( /\ Responded(r, "chat")
          /\ RemoteFailed(r)
          /\ req[r].result.exc.kind = "ResourceExhausted" )
        => /\ req[r].resp.code = 429
           /\ ContainsAnyCase(req[r].result.exc.msg, RateLimitNeedle)
                => req[r].resp.detail = RateLimitDetail
           /\ ~ContainsAnyCase(req[r].result.exc.msg, RateLimitNeedle)
                => /\ req[r].resp.detail = QuotaDetail
                   /\ ContainsAnyCase(req[r].resp.detail, QuotaNeedle)

ChatQuotaBranchWitness ==
    \E r1, r2 \in Slots :
        /\ Responded(r1, "chat")
        /\ req[r1].result.exc = [kind |-> "ResourceExhausted", msg |-> MsgBoth]
        /\ req[r1].resp.detail = RateLimitDetail
        /\ Responded(r2, "chat")
        /\ req[r2].result.exc = [kind |-> "ResourceExhausted", msg |-> MsgQuota]
        /\ req[r2].resp.detail = QuotaDetail

StartupFailFast ==
    [][ /\ (phase = "boot" /\ (~environ.present \/ environ.value = Empty))
            => phase' # "serving"
        /\ phase' = "serving" => llm'.built
        /\ phase = "exited" => phase' = "exited" ]_vars

(* C6: the HTTP status of the status probe is 200 when the remote call     *)
(* succeeds, 429 when the report says quota_exceeded and 500 for any other *)
(* failure.                                                                *)
ProbeHttpStatus ==
    \A r \in Slots :
        Responded(r, "status")
        => req[r].resp.code =
              IF req[r].result.ok THEN 200
              ELSE IF req[r].resp.status = "quota_exceeded" THEN 429
              ELSE 500

(* C7: the status probe reports operational when the remote call succeeds, *)
(* quota_exceeded when it fails with a message containing "quota" or       *)
(* "rate" in any letter case, and error when it fails with neither.        *)
StatusProbeClassification ==
    \A r \in Slots :
        Responded(r, "status")
        => LET quotaText == \/ ContainsAnyCase(req[r].result.exc.msg, QuotaNeedle)
                            \/ ContainsAnyCase(req[r].result.exc.msg, RateNeedle)
           IN  /\ req[r].resp.status \in {"operational", "quota_exceeded", "error"}
               /\ req[r].result.ok => req[r].resp.status = "operational"
               /\ (~req[r].result.ok /\ quotaText) => req[r].resp.status = "quota_exceeded"
               /\ (~req[r].result.ok /\ ~quotaText) => req[r].resp.status = "error"

StatusProbeClassificationWitness ==
    \E r1, r2 \in Slots :
        /\ Responded(r1, "status")
        /\ req[r1].result.exc.msg = MsgRate
        /\ req[r1].resp.status = "quota_exceeded"
        /\ Responded(r2, "status")
        /\ req[r2].result.exc.msg = MsgBoom
        /\ req[r2].resp.status = "error"

(* C8 as stated: two chat requests whose remote calls fail with the same   *)
(* message get the same status code and detail, whatever the failure kind. *)
ChatClassifiesByTextOnly ==
    \A r1, r2 \in Slots :
        ( /\ Responded(r1, "chat") /\ RemoteFailed(r1)
          /\ Responded(r2, "chat") /\ RemoteFailed(r2)
          /\ req[r1].result.exc.msg = req[r2].result.exc.msg )
        => /\ req[r1].resp.code = req[r2].resp.code
           /\ req[r1].resp.detail = req[r2].resp.detail

(* C8 amended: two chat requests whose remote calls fail with the same     *)
(* kind and the same message get the same status code and detail; two      *)
(* status probes whose calls fail with the same message report the same    *)
(* status, whatever the failure kind.                                      *)
ClassifiesByKindAndText ==
    \A r1, r2 \in Slots :
        /\ ( /\ Responded(r1, "chat") /\ RemoteFailed(r1)
             /\ Responded(r2, "chat") /\ RemoteFailed(r2)
             /\ req[r1].result.exc = req[r2].result.exc )
           => /\ req[r1].resp.code = req[r2].resp.code
              /\ req[r1].resp.detail = req[r2].resp.detail
        /\ ( /\ Responded(r1, "status") /\ RemoteFailed(r1)
             /\ Responded(r2, "status") /\ RemoteFailed(r2)
             /\ req[r1].result.exc.msg = req[r2].result.exc.msg )
           => /\ req[r1].resp.code = req[r2].resp.code
              /\ req[r1].resp.status = req[r2].resp.status

ClassifiesByKindAndTextWitness ==
    \E r1, r2 \in Slots :
        /\ r1 # r2
        /\ Responded(r1, "status") /\ Responded(r2, "status")
        /\ req[r1].result.exc = [kind |-> "ResourceExhausted", msg |-> MsgQuota]
        /\ req[r2].result.exc = [kind |-> "Exception", msg |-> MsgQuota]
        /\ req[r1].resp.status = "quota_exceeded"
        /\ req[r2].resp.status = "quota_exceeded"

(* C9: every message chat forward passes to the remote model is non-empty. *)
ForwardedMessageNonEmpty ==
    \A r \in Slots :
        (req[r].route = "chat" /\ req[r].calls = 1) => req[r].body.message # Empty

(* the request failed in the handler: a chat answer of 500, 429 or 504, or *)
(* a status probe whose remote call raised                                 *)
HandlerFailure(r) ==
    \/ Responded(r, "chat") /\ req[r].resp.code \in {429, 500, 504}
    \/ Responded(r, "status") /\ RemoteFailed(r)

(* C10: for every failed request the handler has printed, before           *)
(* answering, a line carrying the failure's original message and a line    *)
(* carrying the traceback.                                                 *)
FailuresLoggedWithTrace ==
    \A r \in Slots :
        HandlerFailure(r)
        => /\ \E i \in 1..Len(req[r].out) : req[r].out[i].traceback
           /\ RemoteFailed(r)
                => \E i \in 1..Len(req[r].out) :
                      Contains(req[r].out[i].text, req[r].result.exc.msg)

(* request r is answered by the handler in the shape the relay promises:   *)
(* a reply with 200, or a detail with 429, 500 or 504, never both; a       *)
(* failure that is neither ResourceExhausted nor TimeoutError gives 500    *)
(* with its text in the detail; while the call is out nothing is answered  *)
(* yet and the answer can always come; the server stays in service.        *)
ChatStructured(r) ==
    /\ req[r].pc \in {"invoking", "responded"}
    /\ phase = "serving"
    /\ req[r].pc = "invoking"
         => /\ req[r].resp = NoResponse
            /\ ENABLED chat_with_ai_done(r)
    /\ req[r].pc = "responded"
         => /\ req[r].resp.code \in {200, 429, 500, 504}
            /\ req[r].resp.code = 200
                 => (req[r].result.ok /\ req[r].resp.detail = Empty)
            /\ req[r].resp.code # 200
                 => (req[r].resp.detail # Empty /\ req[r].resp.reply = Empty)
            /\ req[r].resp.status = ""
    /\ (RemoteFailed(r) /\ req[r].result.exc.kind = "Exception")
         => /\ req[r].resp.code = 500
            /\ Contains(req[r].resp.detail, req[r].result.exc.msg)

(* C11 as stated: every chat request ends with one structured response of  *)
(* status 200, 429, 500 or 504; any failure that is neither quota nor       *)
(* timeout gives 500 with the failure's text; nothing propagates unhandled. *)
ChatAlwaysStructured ==
    \A r \in Slots : req[r].route = "chat" => ChatStructured(r)

(* C11 amended: the same for every chat request whose body validates as    *)
(* ChatRequest; a body without a message is answered 422 by the request    *)
(* validation, before the handler runs and without a remote call.          *)
ChatValidatedStructured ==
    \A r \in Slots :
        req[r].route = "chat"
        => IF req[r].body.has
           THEN ChatStructured(r)
           ELSE /\ Responded(r, "chat")
                /\ req[r].resp.code = 422
                /\ req[r].calls = 0
                /\ phase = "serving"

ChatValidatedStructuredWitness ==
    \E r1, r2 \in Slots :
        /\ Responded(r1, "chat")
        /\ req[r1].result.exc = [kind |-> "Exception", msg |-> MsgBoom]
        /\ req[r1].resp.code = 500
        /\ req[r1].resp.detail = GenericPrefix \o MsgBoom
        /\ Responded(r2, "chat")
        /\ ~req[r2].body.has
        /\ req[r2].resp.code = 422

(* No state crosses requests, apart from what "same answer" needs: the     *)
(* handle is the one built at start-up, a request calls the remote model   *)
(* at most once, and whatever the other requests hold (a status probe that *)
(* reported quota_exceeded or error included) a chat request arriving with *)
(* the key set is forwarded.                                               *)
NoSharedState ==
    /\ phase = "serving" => llm = Handle
    /\ \A r \in Slots : req[r].calls <= 1
    /\ \A r \in Slots :
          (phase = "serving" /\ req[r].pc = "idle" /\ KeyTruthy(environ))
          => ENABLED ( /\ chat_with_ai(r, [has |-> TRUE, message |-> Hello])
                       /\ req'[r].pc = "invoking"
                       /\ req'[r].calls = 1 )

(* C12 as stated: requests are independent; the handle is never modified,  *)
(* a request makes at most one remote call, a chat request is forwarded    *)
(* whatever a status probe reported, and the response to a chat request    *)
(* depends only on the credential and the remote outcome of that request.  *)
RequestsIndependent ==
    /\ NoSharedState
    /\ \A r1, r2 \in Slots :
          ( /\ Responded(r1, "chat") /\ Responded(r2, "chat")
            /\ req[r1].keyOk = req[r2].keyOk
            /\ req[r1].calls = req[r2].calls
            /\ req[r1].result = req[r2].result )
          => req[r1].resp = req[r2].resp

(* C12 amended: the same, where the response to a chat request depends     *)
(* only on whether its body validates, on the credential and on the remote *)
(* outcome of that request.                                                *)
RequestsIndependentValidated ==
    /\ NoSharedState
    /\ \A r1, r2 \in Slots :
          ( /\ Responded(r1, "chat") /\ Responded(r2, "chat")
            /\ req[r1].body.has = req[r2].body.has
            /\ req[r1].keyOk = req[r2].keyOk
            /\ req[r1].calls = req[r2].calls
            /\ req[r1].result = req[r2].result )
          => req[r1].resp = req[r2].resp

RequestsIndependentWitness ==
    \E r1, r2 \in Slots :
        /\ Responded(r1, "status")
        /\ req[r1].resp.status = "quota_exceeded"
        /\ req[r2].route = "chat"
        /\ req[r2].pc = "invoking"
        /\ req[r2].calls = 1
        /\ llm = Handle

====
